---- MODULE Spec2Model ----
(***************************************************************************)
(* Model of analyze_max_g.py: analyze_max_g_values(csv_file_path) reads a  *)
(* tagged-row CSV with pandas, keeps the rows tagged -900 whose ValueG is  *)
(* numeric, groups them by (Trial, TrialNo), takes the signed and the      *)
(* absolute maximum per group and the mean of each over the groups; main() *)
(* writes the report file when the first returned value is not None.       *)
(*                                                                         *)
(* Numbers: a ValueG is an integer number of g-units here; a float is a    *)
(* record [k, n, d] that is finite (the fraction n/d in lowest terms),     *)
(* infinite (n is the sign) or NaN, with IEEE rules for max, abs, + and /. *)
(* The text of the printed lines keeps the values, not their %.2f form.    *)
(***************************************************************************)
EXTENDS Integers, Sequences, FiniteSets, TLC

VARIABLES csv_file, pc, df, stdout, ret, report, fault

vars == <<csv_file, pc, df, stdout, ret, report, fault>>

\* ------------------------------------------------------------------ bounds

MaxRows == 3

\* ------------------------------------------------------- raw cells of a file

\* the text of one CSV cell: a decimal number, inf/-inf, other text, or empty
NumCell(n) == [k |-> "num", n |-> n, s |-> ""]
InfCell(sgn) == [k |-> "inf", n |-> sgn, s |-> ""]
TxtCell(s) == [k |-> "txt", n |-> 0, s |-> s]
NaCell == [k |-> "na", n |-> 0, s |-> ""]

Columns == {"Tag", "Trial", "TrialNo", "ValueG"}

\* ------------------------------------------------------------------ floats

Fin(n) == [k |-> "fin", n |-> n, d |-> 1]
Inf(sgn) == [k |-> "inf", n |-> sgn, d |-> 1]
NaN == [k |-> "nan", n |-> 0, d |-> 1]

Abs(n) == IF n < 0 THEN -n ELSE n

RECURSIVE GCD(_, _)
GCD(a, b) == IF b = 0 THEN a ELSE GCD(b, a % b)

\* a/b as a float, b > 0
Ratio(a, b) ==
  LET g == GCD(Abs(a), b)
  IN [k |-> "fin", n |-> a \div g, d |-> b \div g]

\* x < y on floats; false when either is NaN
FLess(x, y) ==
  /\ x.k # "nan" /\ y.k # "nan"
  /\ \/ x.k = "fin" /\ y.k = "fin" /\ x.n * y.d < y.n * x.d
     \/ x.k = "inf" /\ x.n < 0 /\ ~(y.k = "inf" /\ y.n < 0)
     \/ y.k = "inf" /\ y.n > 0 /\ ~(x.k = "inf" /\ x.n > 0)

FGeq(x, y) == x.k # "nan" /\ y.k # "nan" /\ ~FLess(x, y)

FMax(x, y) == IF FLess(x, y) THEN y ELSE x

FAbs(x) ==
  CASE x.k = "fin" -> [x EXCEPT !.n = Abs(x.n)]
    [] x.k = "inf" -> Inf(1)
    [] OTHER -> NaN

FAdd(x, y) ==
  CASE x.k = "nan" \/ y.k = "nan" -> NaN
    [] x.k = "inf" /\ y.k = "inf" -> IF x.n = y.n THEN x ELSE NaN
    [] x.k = "inf" -> x
    [] y.k = "inf" -> y
    [] OTHER -> Ratio(x.n * y.d + y.n * x.d, x.d * y.d)

\* x / c for a count c > 0
FDivCount(x, c) ==
  CASE x.k = "fin" -> Ratio(x.n, x.d * c)
    [] OTHER -> x

\* ------------------------------------------------------------ input files

Row(tag, trial, trialNo, g) ==
  [Tag |-> tag, Trial |-> trial, TrialNo |-> trialNo, ValueG |-> g]

\* the valid-data marker of the first column
Sentinel == -900

\* a state-marker tag of the source data
StateMarker == -130

\* rows of one repetition (A, 1) under every tag and every kind of ValueG
TaggedRows ==
  { Row(t, TxtCell("A"), NumCell(1), g) :
      t \in {NumCell(Sentinel), NumCell(StateMarker), TxtCell("x")},
      g \in {NumCell(3), InfCell(1), TxtCell("abc"), NaCell} }

\* sample rows over several repetitions, and two with an empty Trial or TrialNo
TrialRows ==
  { Row(NumCell(Sentinel), TxtCell(k[1]), NumCell(k[2]), NumCell(g)) :
      k \in {<<"A", 1>>, <<"A", 2>>, <<"B", 1>>}, g \in {2, 4, 6} }
  \cup { Row(NumCell(Sentinel), NaCell, NumCell(1), NumCell(2)),
         Row(NumCell(Sentinel), TxtCell("A"), NaCell, NumCell(4)) }

\* sample rows of two trials with finite, infinite and non-numeric ValueG
MixedRows ==
  { Row(NumCell(Sentinel), TxtCell(t), NumCell(1), g) :
      t \in {"A", "B"},
      g \in {NumCell(3), NumCell(-5), NumCell(2), InfCell(1), InfCell(-1),
             TxtCell("abc")} }

\* rows of the files whose header lacks a column
PlainRows ==
  { Row(NumCell(t), TxtCell("A"), NumCell(1), NumCell(3)) : t \in {Sentinel, StateMarker} }

SeqsUpTo(S, n) == UNION { [1..m -> S] : m \in 0..n }

File(exists, header, rows) == [exists |-> exists, header |-> header, rows |-> rows]

\* the files at csv_file_path: none; an empty one; one whose header (line 2)
\* lacks some of Trial, TrialNo, ValueG; a well-formed one (the first column
\* is the tag column whenever there is a header)
MissingFile == File(FALSE, {}, <<>>)

EmptyFile == File(TRUE, {}, <<>>)

ShortHeaderFiles ==
  { File(TRUE, {"Tag"} \cup h, rows) :
      h \in (SUBSET {"Trial", "TrialNo", "ValueG"}) \ {{"Trial", "TrialNo", "ValueG"}},
      rows \in SeqsUpTo(PlainRows, 1) }

WellFormedFiles ==
  { File(TRUE, Columns, rows) :
      rows \in SeqsUpTo(TaggedRows, MaxRows) \cup SeqsUpTo(TrialRows, MaxRows)
                 \cup SeqsUpTo(MixedRows, MaxRows) }

Files == {MissingFile, EmptyFile} \cup ShortHeaderFiles \cup WellFormedFiles

\* ------------------------------------------------------------ pandas steps

\* read_csv infers one dtype per column: a column holding any non-numeric
\* text is an object column, whose numeric-looking cells stay strings
ColumnHasText(rows, c) == \E i \in DOMAIN rows : rows[i][c].k = "txt"

AsObject(cell) ==
  CASE cell.k = "num" -> [cell EXCEPT !.k = "numstr"]
    [] cell.k = "inf" -> [cell EXCEPT !.k = "infstr"]
    [] OTHER -> cell

\* the exception pd.read_csv(csv_file_path, skiprows=1) raises, or "none"
read_csv_raises(file) ==
  CASE ~file.exists -> "FileNotFoundError"
    [] file.header = {} -> "EmptyDataError"
    [] OTHER -> "none"

\* the frame pd.read_csv(csv_file_path, skiprows=1) returns: the columns of
\* the header, and the row number as the index
read_csv(file) ==
  [i \in DOMAIN file.rows |->
     [c \in file.header \cup {"index"} |->
        IF c = "index" THEN i
        ELSE IF ColumnHasText(file.rows, c) THEN AsObject(file.rows[i][c])
        ELSE file.rows[i][c]]]

\* df[df.iloc[:, 0] == -900]: a string never equals the integer
TagIsSentinel(r) == r.Tag.k = "num" /\ r.Tag.n = Sentinel

FilterTag(d) == SelectSeq(d, TagIsSentinel)

\* pd.to_numeric(x, errors='coerce') of one value
to_numeric(v) ==
  CASE v.k \in {"num", "numstr"} -> Fin(v.n)
    [] v.k \in {"inf", "infstr"} -> Inf(v.n)
    [] OTHER -> NaN

\* df['ValueG'] = pd.to_numeric(df['ValueG'], errors='coerce')
CoerceValueG(d) == [i \in DOMAIN d |-> [d[i] EXCEPT !.ValueG = to_numeric(@)]]

\* Series.notna(): infinity is not NA
notna(x) == x.k # "nan"

ValueGNotNa(r) == notna(r.ValueG)

\* fillna(0) in the place of the notna() filter
FilterNumeric_FillZero(d) ==
  [i \in DOMAIN d |-> IF notna(d[i].ValueG) THEN d[i] ELSE [d[i] EXCEPT !.ValueG = Fin(0)]]

\* df[df['ValueG'].notna()]
FilterNumeric(d) == SelectSeq(d, ValueGNotNa)

\* df['AbsValueG'] = df['ValueG'].abs()
AddAbsValueG(d) ==
  [i \in DOMAIN d |-> [c \in DOMAIN d[i] \cup {"AbsValueG"} |->
     IF c = "AbsValueG" THEN FAbs(d[i].ValueG) ELSE d[i][c]]]

\* the frame of lines 20-31
PreparedFrame(file) == AddAbsValueG(FilterNumeric(CoerceValueG(FilterTag(read_csv(file)))))

\* the group key of a row; groupby (dropna=True) leaves out a row whose key
\* has a missing part
HasKey(r) == r.Trial.k # "na" /\ r.TrialNo.k # "na"

KeyOf(r) == <<r.Trial.s, r.TrialNo.n>>

GroupKeys(d) == { KeyOf(d[i]) : i \in { j \in DOMAIN d : HasKey(d[j]) } }

\* the order of the labels, as Python orders the strings
StrOrd(s) == CASE s = "A" -> 1 [] s = "B" -> 2 [] OTHER -> 0

KeyLeq(a, b) ==
  \/ StrOrd(a[1]) < StrOrd(b[1])
  \/ a[1] = b[1] /\ a[2] <= b[2]

\* groupby sorts the group keys (sort=True)
RECURSIVE SortKeys(_)
SortKeys(S) ==
  IF S = {} THEN <<>>
  ELSE LET m == CHOOSE k \in S : \A o \in S : KeyLeq(k, o)
       IN <<m>> \o SortKeys(S \ {m})

\* groupby(...).groups: the index labels of the rows of each group
Groups(d) ==
  [key \in GroupKeys(d) |->
     { d[i].index : i \in { j \in DOMAIN d : HasKey(d[j]) /\ KeyOf(d[j]) = key } }]

\* the values of column col in the rows of group key, in row order
GroupColumn(d, key, col) ==
  LET members == Groups(d)[key]
      IsIn(r) == r.index \in members
      g == SelectSeq(d, IsIn)
  IN [i \in DOMAIN g |-> g[i][col]]

\* last() in the place of max()
SeqMax_Last(xs) == xs[Len(xs)]

\* max of a non-empty sequence of floats
RECURSIVE SeqMax(_)
SeqMax(xs) ==
  IF Len(xs) = 1 THEN xs[1] ELSE FMax(xs[1], SeqMax(Tail(xs)))

\* df.groupby(['Trial', 'TrialNo'])[col].max(): a Series as the sequence of
\* its (key, value) items
GroupByMax(d, col) ==
  LET keys == SortKeys(GroupKeys(d))
  IN [i \in DOMAIN keys |->
        [key |-> keys[i], val |-> SeqMax(GroupColumn(d, keys[i], col))]]

max_values(d) == GroupByMax(d, "ValueG")

\* the absolute maxima taken as |signed maximum| of each group
abs_max_values_FromSigned(d) ==
  LET maxes == max_values(d)
  IN [i \in DOMAIN maxes |-> [key |-> maxes[i].key, val |-> FAbs(maxes[i].val)]]

abs_max_values(d) == GroupByMax(d, "AbsValueG")

RECURSIVE SeriesSum(_)
SeriesSum(s) == IF s = <<>> THEN Fin(0) ELSE FAdd(s[1].val, SeriesSum(Tail(s)))

\* Series.sum() in the place of Series.mean()
SeriesMean_Sum(s) == IF s = <<>> THEN NaN ELSE SeriesSum(s)

\* Series.mean(): NaN for an empty Series
SeriesMean(s) == IF s = <<>> THEN NaN ELSE FDivCount(SeriesSum(s), Len(s))

\* ------------------------------------------------- analyze_max_g_values

\* the exception the try body raises before it prints anything, or "none":
\* read_csv's, KeyError of df['ValueG'], KeyError of groupby's keys
try_raises(file) ==
  CASE read_csv_raises(file) # "none" -> read_csv_raises(file)
    [] "ValueG" \notin file.header -> "KeyError"
    [] ~({"Trial", "TrialNo"} \subseteq file.header) -> "KeyError"
    [] OTHER -> "none"

\* the classes the clause `except Exception` catches
ExceptionSubclasses == {"FileNotFoundError", "EmptyDataError", "KeyError"}

\* the clause `except Exception` placed first
ExceptClause_Generic(exc) ==
  IF exc \in ExceptionSubclasses THEN "Exception" ELSE "unhandled"

\* the except clause that takes an exception: the first that matches
ExceptClause(exc) ==
  CASE exc = "FileNotFoundError" -> "FileNotFoundError"
    [] exc \in ExceptionSubclasses -> "Exception"
    [] OTHER -> "unhandled"

NoKey == <<"", 0>>

\* one printed or written line: what it is and the values it shows
Line(t, key, x) == [t |-> t, key |-> key, x |-> x]

Text(t) == Line(t, NoKey, NaN)

ItemLines(t, items) == [i \in DOMAIN items |-> Line(t, items[i].key, items[i].val)]

\* the lines of lines 44-66
PrintedLines(maxes, mean, absmaxes, absmean) ==
  <<Text("rule"), Text("analysis_of"), Text("rule"), Text("max_heading"), Text("dashes")>>
  \o ItemLines("max", maxes)
  \o <<Text("rule"), Line("mean_of_maxes", NoKey, mean),
       Line("total", NoKey, Fin(Len(maxes))), Text("rule"),
       Text("abs_heading"), Text("dashes")>>
  \o ItemLines("abs_max", absmaxes)
  \o <<Text("rule"), Line("mean_of_abs_maxes", NoKey, absmean),
       Line("total", NoKey, Fin(Len(absmaxes))), Text("rule")>>

\* Python values that may be None
None == [none |-> TRUE, items |-> <<>>, x |-> NaN]

Dict(items) == [none |-> FALSE, items |-> items, x |-> NaN]

Float(x) == [none |-> FALSE, items |-> <<>>, x |-> x]

Result(a, b, c, d) ==
  [max_values_dict |-> a, mean_of_maxes |-> b,
   abs_max_values_dict |-> c, mean_of_abs_maxes |-> d]

\* return None, None, None, None
NoneResult == Result(None, None, None, None)

\* the value of line 68 for a file the try body does not raise on
ReturnValue(file) ==
  LET d == PreparedFrame(file)
      maxes == max_values(d)
      absmaxes == abs_max_values(d)
  IN Result(Dict(maxes), Float(SeriesMean(maxes)),
            Dict(absmaxes), Float(SeriesMean(absmaxes)))

\* the local df when the function is left: unbound (empty here) when read_csv
\* raised, the tag-filtered frame when df['ValueG'] raised, else the frame
\* of lines 20-31
DfAtExit(file) ==
  CASE read_csv_raises(file) # "none" -> <<>>
    [] "ValueG" \notin file.header -> FilterTag(read_csv(file))
    [] OTHER -> PreparedFrame(file)

\* lines 17-68: the try body runs to its return
analyze_return ==
  /\ pc = "start"
  /\ try_raises(csv_file) = "none"
  /\ df' = DfAtExit(csv_file)
  /\ ret' = ReturnValue(csv_file)
  /\ stdout' = stdout \o PrintedLines(ret'.max_values_dict.items, ret'.mean_of_maxes.x,
                                      ret'.abs_max_values_dict.items,
                                      ret'.mean_of_abs_maxes.x)
  /\ pc' = "returned"
  /\ UNCHANGED <<csv_file, report, fault>>

\* lines 70-72
analyze_except_FileNotFoundError ==
  /\ pc = "start"
  /\ try_raises(csv_file) # "none"
  /\ ExceptClause(try_raises(csv_file)) = "FileNotFoundError"
  /\ df' = DfAtExit(csv_file)
  /\ stdout' = Append(stdout, Text("error_not_found"))
  /\ ret' = NoneResult
  /\ pc' = "returned"
  /\ UNCHANGED <<csv_file, report, fault>>

\* lines 73-75; an exception no clause takes leaves the function and main
analyze_except_Exception ==
  /\ pc = "start"
  /\ try_raises(csv_file) # "none"
  /\ ExceptClause(try_raises(csv_file)) # "FileNotFoundError"
  /\ df' = DfAtExit(csv_file)
  /\ IF ExceptClause(try_raises(csv_file)) = "Exception"
     THEN /\ stdout' = Append(stdout, Text("error_processing"))
          /\ ret' = NoneResult
          /\ pc' = "returned"
          /\ fault' = fault
     ELSE /\ fault' = TRUE
          /\ pc' = "done"
          /\ UNCHANGED <<stdout, ret>>
  /\ UNCHANGED <<csv_file, report>>

\* ------------------------------------------------------------------- main

\* line 89
main_saves(r) == ~r.max_values_dict.none

\* the lines of lines 95-113
ReportLines(r) ==
  <<Text("analysis_of"), Text("rule"), Text("max_heading"), Text("dashes")>>
  \o ItemLines("max", r.max_values_dict.items)
  \o <<Text("rule"), Line("mean_of_maxes", NoKey, r.mean_of_maxes.x),
       Line("total", NoKey, Fin(Len(r.max_values_dict.items))), Text("rule"),
       Text("abs_heading"), Text("dashes")>>
  \o ItemLines("abs_max", r.abs_max_values_dict.items)
  \o <<Text("rule"), Line("mean_of_abs_maxes", NoKey, r.mean_of_abs_maxes.x),
       Line("total", NoKey, Fin(Len(r.abs_max_values_dict.items))), Text("rule")>>

NoReport == [written |-> FALSE, lines |-> <<>>]

\* lines 89-114: the report file is written
main_write ==
  /\ pc = "returned"
  /\ main_saves(ret)
  /\ report' = [written |-> TRUE, lines |-> ReportLines(ret)]
  /\ stdout' = Append(stdout, Text("results_saved"))
  /\ pc' = "done"
  /\ UNCHANGED <<csv_file, df, ret, fault>>

\* line 89 false: main ends
main_skip ==
  /\ pc = "returned"
  /\ ~main_saves(ret)
  /\ pc' = "done"
  /\ UNCHANGED <<csv_file, df, stdout, ret, report, fault>>

\* ---------------------------------------------------------- specification

Init ==
  /\ csv_file \in Files
  /\ pc = "start"
  /\ df = <<>>
  /\ stdout = <<>>
  /\ ret = NoneResult
  /\ report = NoReport
  /\ fault = FALSE

Next ==
  \/ analyze_return
  \/ analyze_except_FileNotFoundError
  \/ analyze_except_Exception
  \/ main_write
  \/ main_skip

Spec == Init /\ [][Next]_vars

\* ------------------------------------------------- vocabulary of the claims

\* the function has been left (by return or through an except clause)
Left == pc \in {"returned", "done"}

\* the function returned at line 68
Returned == Left /\ ~ret.max_values_dict.none

\* the file is readable and has the four columns
WellFormed == csv_file.exists /\ csv_file.header = Columns

RowNos == DOMAIN csv_file.rows

\* the number a cell's text parses to
CellValue(cell) == IF cell.k = "num" THEN Fin(cell.n) ELSE Inf(cell.n)

\* row i of the file carries the tag -900 and a ValueG that parses as a number
ValidSample(i) ==
  /\ csv_file.rows[i].Tag = NumCell(Sentinel)
  /\ csv_file.rows[i].ValueG.k \in {"num", "inf"}

\* the same with a finite ValueG
FiniteSample(i) ==
  /\ csv_file.rows[i].Tag = NumCell(Sentinel)
  /\ csv_file.rows[i].ValueG.k = "num"

\* row i of the file carries the pair key = <<trial, trialNo>>
Carries(i, key) ==
  /\ csv_file.rows[i].Trial = TxtCell(key[1])
  /\ csv_file.rows[i].TrialNo = NumCell(key[2])

\* the ValueG of the valid samples that carry key
SamplesOf(key) ==
  { CellValue(csv_file.rows[i].ValueG) : i \in { j \in RowNos : ValidSample(j) /\ Carries(j, key) } }

\* the greatest of a non-empty set of numbers
GreatestOf(S) == CHOOSE m \in S : \A x \in S : ~FLess(m, x)

\* the groups of the grouping used for the maxima that hold row i
GroupsHolding(i) == { key \in DOMAIN Groups(df) : i \in Groups(df)[key] }

MaxItems == ret.max_values_dict.items

AbsItems == ret.abs_max_values_dict.items

KeysOf(items) == { items[i].key : i \in DOMAIN items }

\* the printed lines of one kind
LinesOf(t) == SelectSeq(stdout, LAMBDA l : l.t = t)

\* the lines lines 44-66 print
OutputKinds ==
  {"analysis_of", "max_heading", "max", "mean_of_maxes", "total",
   "abs_heading", "abs_max", "mean_of_abs_maxes"}

NoOutputEmitted == \A i \in DOMAIN stdout : stdout[i].t \notin OutputKinds

\* ------------------------------------------------------------------ claims

\* C1: a row of the file contributes to some (Trial, TrialNo) group if and
\* only if its tag is -900 and its ValueG parses as a finite number.
C1_FilterCorrectness ==
  (Left /\ WellFormed) =>
    \A i \in RowNos : (GroupsHolding(i) # {}) <=> FiniteSample(i)

\* C2: a well-formed file without a valid sample group makes the function
\* signal a failure: it returns no result, no placeholder mean of 0 or NaN,
\* and main writes no report.
C2_EmptyGroupsSignaled ==
  (pc = "done" /\ WellFormed /\ \A i \in RowNos : ~ValidSample(i)) =>
    /\ ret.max_values_dict.none
    /\ ret.mean_of_maxes.none
    /\ ~report.written

\* C3: every valid sample, one with an empty Trial or TrialNo included, is in
\* exactly one group of the grouping used for the maxima, and the groups
\* hold nothing but valid samples.
C3_GroupPartition ==
  (Left /\ WellFormed) =>
    /\ \A i \in RowNos : ValidSample(i) => Cardinality(GroupsHolding(i)) = 1
    /\ \A i \in RowNos : GroupsHolding(i) # {} => ValidSample(i)

\* C4: for every group of the returned mappings the signed maximum is the
\* greatest ValueG of that group's valid samples and the absolute maximum
\* the greatest |ValueG| of the same samples.
C4_IndependentExtrema ==
  Returned =>
    /\ \A i \in DOMAIN MaxItems :
         /\ SamplesOf(MaxItems[i].key) # {}
         /\ MaxItems[i].val = GreatestOf(SamplesOf(MaxItems[i].key))
    /\ \A i \in DOMAIN AbsItems :
         /\ SamplesOf(AbsItems[i].key) # {}
         /\ AbsItems[i].val = GreatestOf({ FAbs(x) : x \in SamplesOf(AbsItems[i].key) })

\* the case of C4: samples 3, -5, 2 of one group give 3 and 5
C4_Witness ==
  /\ Returned
  /\ Len(csv_file.rows) = 3
  /\ SamplesOf(<<"A", 1>>) = {Fin(3), Fin(-5), Fin(2)}
  /\ MaxItems = <<[key |-> <<"A", 1>>, val |-> Fin(3)]>>
  /\ AbsItems = <<[key |-> <<"A", 1>>, val |-> Fin(5)]>>

\* the sum of the numerators of the values of items at the indices I
RECURSIVE NumeratorSum(_, _)
NumeratorSum(items, I) ==
  IF I = {} THEN 0
  ELSE LET i == CHOOSE j \in I : TRUE
       IN items[i].val.n + NumeratorSum(items, I \ {i})

\* m is (the sum of the values of items) / (the number of items); the values
\* are whole numbers or infinite
IsMeanOf(m, items) ==
  LET pos == \E i \in DOMAIN items : items[i].val = Inf(1)
      neg == \E i \in DOMAIN items : items[i].val = Inf(-1)
  IN CASE pos /\ neg -> m = NaN
       [] pos -> m = Inf(1)
       [] neg -> m = Inf(-1)
       [] OTHER -> /\ m.k = "fin"
                   /\ m.d > 0
                   /\ m.n * Len(items) = NumeratorSum(items, DOMAIN items) * m.d

\* the (Trial, TrialNo) pairs that at least one valid sample carries
PairsOfValidSamples ==
  { <<csv_file.rows[i].Trial.s, csv_file.rows[i].TrialNo.n>> :
      i \in { j \in RowNos : /\ ValidSample(j)
                             /\ csv_file.rows[j].Trial.k = "txt"
                             /\ csv_file.rows[j].TrialNo.k = "num" } }

\* C5: when at least one group exists, each returned mean is the sum of the
\* per-group maxima over the number of groups, and the reported total is the
\* number of distinct (Trial, TrialNo) groups.
C5_MeanCorrectness ==
  (Returned /\ MaxItems # <<>>) =>
    /\ IsMeanOf(ret.mean_of_maxes.x, MaxItems)
    /\ IsMeanOf(ret.mean_of_abs_maxes.x, AbsItems)
    /\ Len(MaxItems) = Cardinality(PairsOfValidSamples)
    /\ LinesOf("total") = <<Line("total", NoKey, Fin(Cardinality(PairsOfValidSamples))),
                            Line("total", NoKey, Fin(Cardinality(PairsOfValidSamples)))>>

\* the case of C5: signed maxima 2, 4, 6 of three groups give the mean 4
C5_Witness ==
  /\ Returned
  /\ [i \in DOMAIN MaxItems |-> MaxItems[i].val] = <<Fin(2), Fin(4), Fin(6)>>
  /\ ret.mean_of_maxes.x = Fin(4)

\* C6: for a path that does not exist the function reports not-found (not
\* the generic processing error), returns the all-None result with no other
\* output, and main writes no report and ends without a fault.
C6_MissingFile ==
  (Left /\ ~csv_file.exists) =>
    /\ stdout = <<Text("error_not_found")>>
    /\ ret = NoneResult
    /\ report = NoReport
    /\ ~fault

\* the case of C6: main has ended on a missing file
C6_Witness == pc = "done" /\ ~csv_file.exists

\* the runs C7 counts as failures: missing file, structural failure,
\* zero-data file
FailureRun ==
  \/ ~csv_file.exists
  \/ ~WellFormed
  \/ WellFormed /\ \A i \in RowNos : ~ValidSample(i)

\* C7: no exception escapes a run of main, and a failure run (missing file,
\* structural failure, zero-data file) prints a message and nothing of the
\* per-group or summary output, returns the failure result and so differs
\* from a successful run.
C7_FailuresRecovered ==
  pc = "done" =>
    /\ ~fault
    /\ FailureRun =>
         /\ Len(stdout) = 1
         /\ NoOutputEmitted
         /\ ret = NoneResult
         /\ ~report.written

\* C8: a pair is a key of the returned mappings only if a valid sample
\* carries it; a pair whose rows are all excluded is in neither mapping, has
\* no printed or written line and is not counted.
C8_NoPhantomGroups ==
  Returned =>
    /\ \A key \in KeysOf(MaxItems) \cup KeysOf(AbsItems) : SamplesOf(key) # {}
    /\ \A i \in DOMAIN stdout :
         stdout[i].t \in {"max", "abs_max"} => SamplesOf(stdout[i].key) # {}
    /\ \A i \in DOMAIN report.lines :
         report.lines[i].t \in {"max", "abs_max"} => SamplesOf(report.lines[i].key) # {}
    /\ Len(MaxItems) <= Cardinality(PairsOfValidSamples)
    /\ Len(AbsItems) <= Cardinality(PairsOfValidSamples)

\* the case of C8: the rows of (B, 1) are all excluded, those of (A, 1) not
C8_Witness ==
  /\ pc = "done"
  /\ Returned
  /\ \E i \in RowNos : Carries(i, <<"B", 1>>)
  /\ SamplesOf(<<"B", 1>>) = {}
  /\ KeysOf(MaxItems) = {<<"A", 1>>}

\* the file with its data rows i and j exchanged
Exchanged(i, j) ==
  File(csv_file.exists, csv_file.header,
       [csv_file.rows EXCEPT ![i] = csv_file.rows[j], ![j] = csv_file.rows[i]])

\* C9: a file whose data rows are a permutation of this file's rows gives
\* the same keys, the same maxima per key, the same means and the same count.
\* Every permutation is a chain of exchanges of two rows, and the files are
\* all the sequences over the same rows, so it is stated of one exchange.
C9_OrderIndependence ==
  (pc = "returned" /\ WellFormed) =>
    \A i, j \in RowNos : i < j => ReturnValue(Exchanged(i, j)) = ret

\* the case of C9: a group whose greatest value is not in its last row
C9_Witness ==
  /\ pc = "returned"
  /\ Returned
  /\ Len(csv_file.rows) = 3
  /\ \A i \in RowNos : ValidSample(i) /\ Carries(i, <<"A", 1>>)
  /\ csv_file.rows[1].ValueG = NumCell(3)
  /\ csv_file.rows[2].ValueG = NumCell(-5)
  /\ csv_file.rows[3].ValueG = NumCell(2)

\* C10: on every return at line 68 the two mappings have the same keys, for
\* every key absMax >= 0 and absMax >= |signedMax| >= signedMax, and the
\* mean of the absolute maxima is >= the mean of the signed maxima.
C10_MappingsConsistent ==
  Returned =>
    /\ [i \in DOMAIN MaxItems |-> MaxItems[i].key] = [i \in DOMAIN AbsItems |-> AbsItems[i].key]
    /\ \A i \in DOMAIN MaxItems :
         /\ FGeq(AbsItems[i].val, Fin(0))
         /\ FGeq(AbsItems[i].val, FAbs(MaxItems[i].val))
         /\ FGeq(FAbs(MaxItems[i].val), MaxItems[i].val)
    /\ \A i \in DOMAIN MaxItems :
         (\E x \in SamplesOf(MaxItems[i].key) :
             FGeq(x, Fin(0)) /\ \A y \in SamplesOf(MaxItems[i].key) : FGeq(x, FAbs(y)))
           => AbsItems[i].val = MaxItems[i].val
    /\ FGeq(ret.mean_of_abs_maxes.x, ret.mean_of_maxes.x)

====
